---- MODULE Spec2Model ----
(***************************************************************************)
(* Model of the camera component (both variants kept in Camera.jsx) and of *)
(* the macro-camera finder (findMacroCameraDeviceId.js).                   *)
(*                                                                         *)
(* JavaScript runs each continuation to completion, so one action is the   *)
(* code executed between two awaits: it starts when a platform promise     *)
(* settles (or an event fires) and ends at the next await or at the end of *)
(* the function.  The platform (enumerateDevices, getUserMedia, play,      *)
(* ImageCapture, canvas) is the environment: every outcome it can produce  *)
(* is a nondeterministic choice.                                           *)
(***************************************************************************)
EXTENDS Integers, Sequences, FiniteSets, TLC

\* ---------------------------------------------------------------- bounds
MaxDevices == 3      \* longest enumerated device list
MaxFocus == 3        \* minFocusDistance values are 0..MaxFocus (units of 0.1, so 0.1 and 0.3 are 1 and 3)
MaxCaptures == 2     \* capturePhoto invocations that may be in flight together

\* ------------------------------------------------------- JavaScript values
Null == "null"
Undefined == "undefined"

\* JavaScript truthiness of a string-or-null-or-undefined value
Truthy(v) == v \notin {Null, Undefined, ""}

\* a || b
Or(a, b) == IF Truthy(a) THEN a ELSE b

\* deviceId strings the platform may hand out; "" is what enumerateDevices
\* reports while camera permission has not been granted yet
DeviceIds == {"", "cam0", "cam1", "cam2"}

Device == [kind : {"videoinput"}, deviceId : DeviceIds]
            \cup [kind : {"audioinput"}, deviceId : {"mic"}]

\* devices.filter(d => d.kind === 'videoinput')
VideoInputsOf(devs) == SelectSeq(devs, LAMBDA d : d.kind = "videoinput")

\* enumerateDevices() results: device ids are unique among the video inputs
DeviceLists ==
    { devs \in UNION { [1..n -> Device] : n \in 0..MaxDevices } :
        LET vi == VideoInputsOf(devs)
        IN  \A i, j \in 1..Len(vi) : vi[i].deviceId = vi[j].deviceId => i = j }

\* a probe that yielded no caps: getUserMedia rejected, or the capability query threw
AcquireFailed == [type |-> "acquireFailed", val |-> 0]
CapsFailed == [type |-> "capsFailed", val |-> 0]

\* what getPhotoCapabilities() may resolve with, seen through caps.minFocusDistance
CapsValues == { [type |-> "undefined", val |-> 0] }
                \cup { [type |-> "number", val |-> n] : n \in 0..MaxFocus }

VARIABLES
    \* ---- Camera component
    variant,        \* 1: Camera with startCamera (lines 8-177), 2: Camera with startPreview (lines 190-285)
    isAndroid,      \* isAndroid() of variant 2
    mounted,        \* the view exists; videoRef.current is the <video> element iff mounted
    streamRef,      \* streamRef.current
    mainTrack,      \* the preview stream's track: "none", "live", "ended"
    srcObject,      \* video.srcObject has been set to the stream
    startPc,        \* position of startCamera / startPreview
    constraints,    \* constraints.deviceId of startPreview
    timer,          \* the setTimeout callback of startCamera
    photoUrl,       \* useState photoUrl
    error,          \* useState error (variant 1)
    captures,       \* the capturePhoto invocations
    \* ---- findMacroCameraDeviceId
    devices,        \* result of enumerateDevices()
    videoInputs,
    idx,            \* position of the for-of loop in videoInputs
    mpc,            \* position of findMacroCameraDeviceId
    bestDeviceId,
    bestMinFocus,
    liveProbes,     \* loop positions whose probe stream has a live track
    ret,            \* the value findMacroCameraDeviceId returned
    probed,         \* loop positions for which getUserMedia was requested, in order
    reports,        \* what each finished probe yielded, in order: a caps value or a failure
    \* ---- track accounting (what a test double of the platform would count)
    nAcquired,      \* streams handed out by getUserMedia
    nReleased       \* tracks that went from live to ended

macroVars == <<devices, videoInputs, idx, mpc, bestDeviceId, bestMinFocus,
               liveProbes, ret, probed, reports>>
camVars == <<variant, isAndroid, mounted, streamRef, mainTrack, srcObject, startPc,
             constraints, timer, photoUrl, error, captures>>
vars == <<camVars, macroVars, nAcquired, nReleased>>

\* ============================================================ findMacroCameraDeviceId

\* videoInputs[0]?.deviceId
FirstDeviceId(vi) == IF Len(vi) = 0 THEN Undefined ELSE vi[1].deviceId

\* return bestDeviceId || videoInputs[0]?.deviceId || null
ReturnValue(best, vi) == Or(Or(best, FirstDeviceId(vi)), Null)

\* typeof caps.minFocusDistance === 'number' && caps.minFocusDistance > bestMinFocus
Improves(caps, bestMin) == caps.type = "number" /\ caps.val > bestMin

\* track.stop() of line 26 and stream.getTracks().forEach(t => t.stop()) of line 30
StopProbe(live, i) == live \ {i}

\* a finally block that stops nothing (what the scan would do without lines 29-31)
FinallyLeaks(streamDefined, live, i) == live

\* finally { if (stream) stream.getTracks().forEach(t => t.stop()) }
Finally(streamDefined, live, i) == IF streamDefined THEN StopProbe(live, i) ELSE live

\* end of one loop iteration: the for-of loop requests the next device's
\* stream, or the function returns after the last device
NextDevice(i, report) ==
    /\ reports' = Append(reports, report)
    /\ IF i < Len(videoInputs)
       THEN /\ idx' = i + 1
            /\ probed' = Append(probed, i + 1)
            /\ mpc' = "getUserMedia"
            /\ ret' = ret
       ELSE /\ idx' = i
            /\ probed' = probed
            /\ mpc' = "returned"
            /\ ret' = ReturnValue(bestDeviceId', videoInputs)

\* a catch that gives up the scan and returns at the first failing probe
AfterFailureAborts(i, report) ==
    /\ reports' = Append(reports, report)
    /\ idx' = i
    /\ probed' = probed
    /\ mpc' = "returned"
    /\ ret' = ReturnValue(bestDeviceId', videoInputs)

\* catch (e) { console.warn(...) } finally {...}: the loop goes on
AfterFailure(i, report) == NextDevice(i, report)

\* enumerateDevices() resolves; lines 7-12 up to the first getUserMedia
EnumerateResolve ==
    /\ mpc = "enumerateDevices"
    /\ \E devs \in DeviceLists :
         /\ devices' = devs
         /\ videoInputs' = VideoInputsOf(devs)
    /\ bestDeviceId' = Null
    /\ bestMinFocus' = 0
    /\ reports' = <<>>
    /\ IF Len(videoInputs') > 0
       THEN /\ idx' = 1
            /\ probed' = <<1>>
            /\ mpc' = "getUserMedia"
            /\ ret' = ret
       ELSE /\ idx' = 0
            /\ probed' = <<>>
            /\ mpc' = "returned"
            /\ ret' = ReturnValue(bestDeviceId', videoInputs')
    /\ UNCHANGED <<liveProbes, nAcquired, nReleased, camVars>>

\* enumerateDevices() rejects: findMacroCameraDeviceId rejects, and so does
\* startPreview, whose call at line 200 is outside its try
EnumerateReject ==
    /\ mpc = "enumerateDevices"
    /\ mpc' = "rejected"
    /\ startPc' = "rejected"
    /\ UNCHANGED <<devices, videoInputs, idx, bestDeviceId, bestMinFocus, liveProbes,
                   ret, probed, reports, nAcquired, nReleased>>
    /\ UNCHANGED <<variant, isAndroid, mounted, streamRef, mainTrack, srcObject,
                   constraints, timer, photoUrl, error, captures>>

\* the probe's getUserMedia resolves (lines 15-19): the track is live, then
\* new ImageCapture(track).getPhotoCapabilities() is called; when the
\* constructor or the call throws, catch and finally run at once
ProbeAcquireResolve ==
    /\ mpc = "getUserMedia"
    /\ nAcquired' = nAcquired + 1
    /\ \E ctorThrows \in BOOLEAN :
         IF ctorThrows
         THEN /\ liveProbes' = Finally(TRUE, liveProbes \cup {idx}, idx)
              /\ nReleased' = nReleased + Cardinality((liveProbes \cup {idx}) \ liveProbes')
              /\ UNCHANGED <<bestDeviceId, bestMinFocus>>
              /\ AfterFailure(idx, CapsFailed)
         ELSE /\ liveProbes' = liveProbes \cup {idx}
              /\ mpc' = "getPhotoCapabilities"
              /\ UNCHANGED <<bestDeviceId, bestMinFocus, idx, probed, reports, ret, nReleased>>
    /\ UNCHANGED <<devices, videoInputs, camVars>>

\* the probe's getUserMedia rejects: stream stays undefined
ProbeAcquireReject ==
    /\ mpc = "getUserMedia"
    /\ liveProbes' = Finally(FALSE, liveProbes, idx)
    /\ nReleased' = nReleased + Cardinality(liveProbes \ liveProbes')
    /\ UNCHANGED <<bestDeviceId, bestMinFocus>>
    /\ AfterFailure(idx, AcquireFailed)
    /\ UNCHANGED <<devices, videoInputs, nAcquired, camVars>>

\* getPhotoCapabilities() resolves (lines 21-26, then 29-31)
ProbeCapsResolve ==
    /\ mpc = "getPhotoCapabilities"
    /\ liveProbes' = Finally(TRUE, StopProbe(liveProbes, idx), idx)
    /\ nReleased' = nReleased + Cardinality(liveProbes \ liveProbes')
    /\ \E caps \in CapsValues :
         /\ IF Improves(caps, bestMinFocus)
            THEN /\ bestMinFocus' = caps.val
                 /\ bestDeviceId' = videoInputs[idx].deviceId
            ELSE UNCHANGED <<bestDeviceId, bestMinFocus>>
         /\ NextDevice(idx, caps)
    /\ UNCHANGED <<devices, videoInputs, nAcquired, camVars>>

\* getPhotoCapabilities() rejects (lines 27-31)
ProbeCapsReject ==
    /\ mpc = "getPhotoCapabilities"
    /\ liveProbes' = Finally(TRUE, liveProbes, idx)
    /\ nReleased' = nReleased + Cardinality(liveProbes \ liveProbes')
    /\ UNCHANGED <<bestDeviceId, bestMinFocus>>
    /\ AfterFailure(idx, CapsFailed)
    /\ UNCHANGED <<devices, videoInputs, nAcquired, camVars>>

\* ============================================================ start of the preview

\* await findMacroCameraDeviceId() resumes startPreview (lines 200-204):
\* if (deviceId) constraints.deviceId = { exact: deviceId }; then getUserMedia
\* is requested.  The call frame of findMacroCameraDeviceId is gone.
MacroReturn ==
    /\ mpc = "returned"
    /\ startPc = "findMacro"
    /\ constraints' = IF Truthy(ret) THEN ret ELSE Undefined
    /\ startPc' = "getUserMedia"
    /\ mpc' = "idle"
    /\ devices' = <<>>
    /\ videoInputs' = <<>>
    /\ idx' = 0
    /\ bestDeviceId' = Null
    /\ bestMinFocus' = 0
    /\ ret' = Undefined
    /\ probed' = <<>>
    /\ reports' = <<>>
    /\ UNCHANGED <<liveProbes, nAcquired, nReleased>>
    /\ UNCHANGED <<variant, isAndroid, mounted, streamRef, mainTrack, srcObject,
                   timer, photoUrl, error, captures>>

\* the effect runs after the first render: startCamera() / startPreview() is
\* called and runs to its first await
Mount ==
    /\ startPc = "init"
    /\ mounted' = TRUE
    /\ IF variant = 2 /\ isAndroid
       THEN /\ startPc' = "findMacro"
            /\ mpc' = "enumerateDevices"
       ELSE /\ startPc' = "getUserMedia"
            /\ mpc' = mpc
    /\ UNCHANGED <<devices, videoInputs, idx, bestDeviceId, bestMinFocus, liveProbes,
                   ret, probed, reports, nAcquired, nReleased>>
    /\ UNCHANGED <<variant, isAndroid, streamRef, mainTrack, srcObject,
                   constraints, timer, photoUrl, error, captures>>

\* setError(...) on a view that may be gone: React drops updates of an unmounted component
SetError(msg) == error' = IF mounted THEN msg ELSE error

\* the catch branch of start: variant 1 lines 67-70, variant 2 lines 209-211
StartCatch ==
    /\ startPc' = "failed"
    /\ IF variant = 1 THEN SetError("Could not start camera") ELSE error' = error

\* getUserMedia of start resolves: variant 1 lines 39-44, variant 2 lines 204-208
StartAcquireResolve ==
    /\ startPc = "getUserMedia"
    /\ streamRef' = "stream"
    /\ mainTrack' = "live"
    /\ nAcquired' = nAcquired + 1
    /\ constraints' = Undefined
    /\ IF mounted
       THEN \* videoRef.current is the element: srcObject = stream; await play()
            /\ srcObject' = TRUE
            /\ startPc' = "play"
            /\ error' = error
       ELSE /\ srcObject' = srcObject
            /\ IF variant = 1
               THEN \* if (videoRef.current) is false: the try block ends
                    /\ startPc' = "done"
                    /\ error' = error
               ELSE \* videoEl is null: videoEl.srcObject = stream throws a TypeError
                    StartCatch
    /\ UNCHANGED <<mounted, variant, isAndroid, timer, photoUrl, captures, macroVars, nReleased>>

\* getUserMedia of start rejects
StartAcquireReject ==
    /\ startPc = "getUserMedia"
    /\ StartCatch
    /\ constraints' = Undefined
    /\ UNCHANGED <<mounted, variant, isAndroid, streamRef, mainTrack, srcObject, timer,
                   photoUrl, captures, macroVars, nAcquired, nReleased>>

\* play() resolves: variant 1 schedules the delayed focus optimisation (lines 46-65)
PlayResolve ==
    /\ startPc = "play"
    /\ startPc' = "done"
    /\ timer' = IF variant = 1 THEN "armed" ELSE timer
    /\ UNCHANGED <<mounted, variant, isAndroid, streamRef, mainTrack, srcObject, constraints,
                   photoUrl, error, captures, macroVars, nAcquired, nReleased>>

\* play() rejects
PlayReject ==
    /\ startPc = "play"
    /\ StartCatch
    /\ UNCHANGED <<mounted, variant, isAndroid, streamRef, mainTrack, srcObject, constraints,
                   timer, photoUrl, captures, macroVars, nAcquired, nReleased>>

\* the 500 ms timer fires (lines 50-59): track.applyConstraints(...) is awaited.
\* Nothing clears the timer, so it also fires after the view is gone.
TimerFire ==
    /\ timer = "armed"
    /\ timer' = "applyConstraints"
    /\ UNCHANGED <<mounted, variant, isAndroid, streamRef, mainTrack, srcObject, startPc,
                   constraints, photoUrl, error, captures, macroVars, nAcquired, nReleased>>

\* applyConstraints of the timer settles (lines 60-64): both outcomes only log
TimerSettle ==
    /\ timer = "applyConstraints"
    /\ timer' = "finished"
    /\ UNCHANGED <<mounted, variant, isAndroid, streamRef, mainTrack, srcObject, startPc,
                   constraints, photoUrl, error, captures, macroVars, nAcquired, nReleased>>

\* the effect's cleanup (variant 1 lines 75-79, variant 2 lines 215-220);
\* React detaches videoRef in the same commit
Unmount ==
    /\ mounted
    /\ mounted' = FALSE
    /\ IF streamRef # Null /\ mainTrack = "live"
       THEN /\ mainTrack' = "ended"
            /\ nReleased' = nReleased + 1
       ELSE UNCHANGED <<mainTrack, nReleased>>
    /\ UNCHANGED <<variant, isAndroid, streamRef, srcObject, startPc, constraints, timer,
                   photoUrl, error, captures, macroVars, nAcquired>>

\* ============================================================ capturePhoto

\* one capturePhoto invocation: where it is suspended, and what happened in it
\*   tp     outcome of takePhoto():            "none", "ok", "failed"
\*   grab   outcome of the frame-grab fallback: "none", "ok", "failed"
\*   frame  the grabbed frame of variant 2:     "none", "sized", "empty"
\*   result how the invocation ended: "none", "image" (setPhotoUrl with an image),
\*          "empty" (setPhotoUrl with an image of no pixels), "returned" (early
\*          return, no image), "threw" (the returned promise rejected)
IdleCapture == [pc |-> "idle", tp |-> "none", grab |-> "none", frame |-> "none", result |-> "none"]

\* platform calls against the session's track that a capture may be awaiting
TrackCalls == {"applyConstraints", "setOptions", "takePhoto", "grabFrame"}

\* setPhotoUrl(u): React drops the update of an unmounted component
SetPhotoUrl(u) == photoUrl' = IF mounted THEN u ELSE photoUrl

\* the invocation in slot c ends
Finish(c, rec) == captures' = [captures EXCEPT ![c] = [rec EXCEPT !.pc = "done"]]

\* new window.ImageCapture(track) of capturePhoto (variant 1 line 88, variant 2
\* line 237) is outside every try: when it throws, capturePhoto throws
Construct(c, rec, ctorThrows, next) ==
    IF ctorThrows
    THEN Finish(c, [rec EXCEPT !.result = "threw"])
    ELSE captures' = [captures EXCEPT ![c] = [rec EXCEPT !.pc = next]]

\* the shutter button is pressed: capturePhoto runs to its first await
\* (variant 1 lines 84-91, variant 2 lines 225-239)
Press(c) ==
    /\ mounted
    /\ captures[c].pc \in {"idle", "done"}
    /\ IF streamRef = Null
       THEN \* if (!stream) return
            UNCHANGED captures
       ELSE \E ctorThrows \in BOOLEAN :
              IF variant = 1
              THEN Construct(c, IdleCapture, ctorThrows, "takePhoto")
              ELSE \E getCapabilitiesThrows \in BOOLEAN, continuous \in BOOLEAN :
                     IF isAndroid /\ getCapabilitiesThrows
                     THEN \* track.getCapabilities() at line 231 is outside every try
                          Finish(c, [IdleCapture EXCEPT !.result = "threw"])
                     ELSE IF isAndroid /\ continuous
                          THEN captures' = [captures EXCEPT ![c] =
                                              [IdleCapture EXCEPT !.pc = "applyConstraints"]]
                          ELSE Construct(c, IdleCapture, ctorThrows, "getPhotoCapabilities")
    /\ UNCHANGED <<variant, isAndroid, mounted, streamRef, mainTrack, srcObject, startPc,
                   constraints, timer, photoUrl, error, macroVars, nAcquired, nReleased>>

\* variant 2 line 233: applyConstraints settles, a rejection is swallowed by
\* .catch(() => {}); then lines 237-239
ApplyFocusSettle(c) ==
    /\ captures[c].pc = "applyConstraints"
    /\ \E ctorThrows \in BOOLEAN :
         Construct(c, captures[c], ctorThrows, "getPhotoCapabilities")
    /\ UNCHANGED <<variant, isAndroid, mounted, streamRef, mainTrack, srcObject, startPc,
                   constraints, timer, photoUrl, error, macroVars, nAcquired, nReleased>>

\* variant 2 lines 239-249: getPhotoCapabilities settles (a rejection leaves
\* photoCaps = {}), then setOptions is awaited if single-shot focus is offered,
\* else takePhoto is awaited
PhotoCapsSettle(c) ==
    /\ captures[c].pc = "getPhotoCapabilities"
    /\ \E singleShot \in BOOLEAN :
         captures' = [captures EXCEPT ![c].pc =
                         IF singleShot THEN "setOptions" ELSE "takePhoto"]
    /\ UNCHANGED <<variant, isAndroid, mounted, streamRef, mainTrack, srcObject, startPc,
                   constraints, timer, photoUrl, error, macroVars, nAcquired, nReleased>>

\* variant 2 line 243: setOptions settles, a rejection is swallowed
SetOptionsSettle(c) ==
    /\ captures[c].pc = "setOptions"
    /\ captures' = [captures EXCEPT ![c].pc = "takePhoto"]
    /\ UNCHANGED <<variant, isAndroid, mounted, streamRef, mainTrack, srcObject, startPc,
                   constraints, timer, photoUrl, error, macroVars, nAcquired, nReleased>>

\* takePhoto() resolves: setPhotoUrl(URL.createObjectURL(blob))
\* (variant 1 lines 91-92, variant 2 lines 249 and 260)
TakePhotoResolve(c) ==
    /\ captures[c].pc = "takePhoto"
    /\ SetPhotoUrl("blob:photo")
    /\ Finish(c, [captures[c] EXCEPT !.tp = "ok", !.result = "image"])
    /\ UNCHANGED <<variant, isAndroid, mounted, streamRef, mainTrack, srcObject, startPc,
                   constraints, timer, error, macroVars, nAcquired, nReleased>>

\* canvas.toDataURL(...) of a canvas sized from the frame: a canvas without
\* pixels encodes to "data:,"
ToDataURL(hasPixels) == IF hasPixels THEN "data:image/jpeg" ELSE "data:,"

\* variant 1 lines 93-107: the canvas fallback, run at once in the catch.
\* video.videoWidth is 0 until the element has decoded a frame.
CanvasFallback(c, hasPixels) ==
    IF ~mounted
    THEN \* if (!video) return
         /\ UNCHANGED photoUrl
         /\ Finish(c, [captures[c] EXCEPT !.tp = "failed", !.result = "returned"])
    ELSE /\ SetPhotoUrl(ToDataURL(hasPixels))
         /\ Finish(c, [captures[c] EXCEPT !.tp = "failed", !.grab = "ok",
                          !.result = IF hasPixels THEN "image" ELSE "empty"])

\* takePhoto() rejects: variant 1 runs the canvas fallback, variant 2 awaits
\* imageCapture.grabFrame() (line 251)
TakePhotoReject(c) ==
    /\ captures[c].pc = "takePhoto"
    /\ IF variant = 1
       THEN \E hasPixels \in BOOLEAN : CanvasFallback(c, hasPixels)
       ELSE /\ captures' = [captures EXCEPT ![c] =
                              [captures[c] EXCEPT !.tp = "failed", !.pc = "grabFrame"]]
            /\ UNCHANGED photoUrl
    /\ UNCHANGED <<variant, isAndroid, mounted, streamRef, mainTrack, srcObject, startPc,
                   constraints, timer, error, macroVars, nAcquired, nReleased>>

\* grabFrame() resolves (variant 2 lines 251-257): the canvas takes its size
\* from frame.displayWidth / displayHeight, which the platform's frame object
\* may not define (then the canvas has no pixels); fetch(dataUrl) is awaited
GrabFrameResolve(c) ==
    /\ captures[c].pc = "grabFrame"
    /\ \E hasDisplaySize \in BOOLEAN :
         captures' = [captures EXCEPT ![c] =
                         [captures[c] EXCEPT !.pc = "fetch",
                             !.frame = IF hasDisplaySize THEN "sized" ELSE "empty"]]
    /\ UNCHANGED <<variant, isAndroid, mounted, streamRef, mainTrack, srcObject, startPc,
                   constraints, timer, photoUrl, error, macroVars, nAcquired, nReleased>>

\* grabFrame() rejects: nothing catches it, capturePhoto rejects
GrabFrameReject(c) ==
    /\ captures[c].pc = "grabFrame"
    /\ Finish(c, [captures[c] EXCEPT !.grab = "failed", !.result = "threw"])
    /\ UNCHANGED <<variant, isAndroid, mounted, streamRef, mainTrack, srcObject, startPc,
                   constraints, timer, photoUrl, error, macroVars, nAcquired, nReleased>>

\* (await fetch(dataUrl)).blob() resolves (variant 2 lines 257-260)
FetchResolve(c) ==
    /\ captures[c].pc = "fetch"
    /\ SetPhotoUrl(IF captures[c].frame = "sized" THEN "blob:frame" ELSE "blob:empty")
    /\ Finish(c, [captures[c] EXCEPT !.grab = "ok",
                     !.result = IF captures[c].frame = "sized" THEN "image" ELSE "empty"])
    /\ UNCHANGED <<variant, isAndroid, mounted, streamRef, mainTrack, srcObject, startPc,
                   constraints, timer, error, macroVars, nAcquired, nReleased>>

\* fetch(dataUrl) or .blob() rejects: capturePhoto rejects
FetchReject(c) ==
    /\ captures[c].pc = "fetch"
    /\ Finish(c, [captures[c] EXCEPT !.grab = "failed", !.result = "threw"])
    /\ UNCHANGED <<variant, isAndroid, mounted, streamRef, mainTrack, srcObject, startPc,
                   constraints, timer, photoUrl, error, macroVars, nAcquired, nReleased>>

\* the Retake button of variant 1 (line 161): setPhotoUrl(null)
Retake ==
    /\ variant = 1
    /\ mounted
    /\ photoUrl # Null
    /\ photoUrl' = Null
    /\ UNCHANGED <<variant, isAndroid, mounted, streamRef, mainTrack, srcObject, startPc,
                   constraints, timer, error, captures, macroVars, nAcquired, nReleased>>

Init ==
    /\ variant \in {1, 2}
    /\ isAndroid \in BOOLEAN
    /\ variant = 1 => ~isAndroid
    /\ mounted = FALSE
    /\ streamRef = Null
    /\ mainTrack = "none"
    /\ srcObject = FALSE
    /\ startPc = "init"
    /\ constraints = Undefined
    /\ timer = "none"
    /\ photoUrl = Null
    /\ error = Null
    /\ captures = [c \in 1..MaxCaptures |-> IdleCapture]
    /\ devices = <<>>
    /\ videoInputs = <<>>
    /\ idx = 0
    /\ mpc = "idle"
    /\ bestDeviceId = Null
    /\ bestMinFocus = 0
    /\ liveProbes = {}
    /\ ret = Undefined
    /\ probed = <<>>
    /\ reports = <<>>
    /\ nAcquired = 0
    /\ nReleased = 0

Next ==
    \/ Mount
    \/ EnumerateResolve
    \/ EnumerateReject
    \/ ProbeAcquireResolve
    \/ ProbeAcquireReject
    \/ ProbeCapsResolve
    \/ ProbeCapsReject
    \/ MacroReturn
    \/ StartAcquireResolve
    \/ StartAcquireReject
    \/ PlayResolve
    \/ PlayReject
    \/ TimerFire
    \/ TimerSettle
    \/ Unmount
    \/ \E c \in 1..MaxCaptures : Press(c)
    \/ \E c \in 1..MaxCaptures : ApplyFocusSettle(c)
    \/ \E c \in 1..MaxCaptures : PhotoCapsSettle(c)
    \/ \E c \in 1..MaxCaptures : SetOptionsSettle(c)
    \/ \E c \in 1..MaxCaptures : TakePhotoResolve(c)
    \/ \E c \in 1..MaxCaptures : TakePhotoReject(c)
    \/ \E c \in 1..MaxCaptures : GrabFrameResolve(c)
    \/ \E c \in 1..MaxCaptures : GrabFrameReject(c)
    \/ \E c \in 1..MaxCaptures : FetchResolve(c)
    \/ \E c \in 1..MaxCaptures : FetchReject(c)
    \/ Retake

Spec == Init /\ [][Next]_vars
\* ============================================================ properties

\* positions of the probes that reported a numeric minFocusDistance
NumericReports == { i \in 1..Len(reports) : reports[i].type = "number" }

\* the first position, in enumeration order, that attains the largest reported value
FirstLargest ==
    CHOOSE i \in NumericReports :
        /\ \A j \in NumericReports : reports[j].val <= reports[i].val
        /\ \A j \in NumericReports : reports[j].val = reports[i].val => i <= j

\* C1: findMacroCameraDeviceId returns the deviceId of one of the list's
\* video-input devices, and returns null only when the list holds no
\* video-input device.
C1_ReturnsListedDevice ==
    mpc = "returned" =>
        IF \E k \in 1..Len(devices) : devices[k].kind = "videoinput"
        THEN \E k \in 1..Len(devices) :
                /\ devices[k].kind = "videoinput"
                /\ ret = devices[k].deviceId
        ELSE ret = Null

\* C2: when at least one probe reported a numeric minimum focus distance, the
\* function returns the device with the largest reported value, the first such
\* device in enumeration order on a tie.
C2_ReturnsLargestFocus ==
    (mpc = "returned" /\ NumericReports # {}) =>
        ret = videoInputs[FirstLargest].deviceId

\* C3: when no probe reported a numeric minimum focus distance and there is a
\* video input, the function returns the first video input's deviceId.
C3_FallsBackToFirst ==
    (mpc = "returned" /\ NumericReports = {} /\ Len(videoInputs) > 0) =>
        ret = videoInputs[1].deviceId

\* C4: every acquired probe stream is stopped, whether the capability query
\* succeeded or threw; the stream of one device is stopped before the next
\* device's stream is requested, so at most one probe stream is live; and when
\* the function returns no probe stream is live and the number of releases
\* equals the number of successful acquisitions.
C4_ProbesReleased ==
    /\ Cardinality(liveProbes) <= 1
    /\ mpc = "getUserMedia" => liveProbes = {}
    /\ mpc = "getPhotoCapabilities" => liveProbes = {idx}
    /\ mpc = "returned" =>
         /\ liveProbes = {}
         /\ nAcquired = Cardinality({ i \in 1..Len(reports) : reports[i] # AcquireFailed })
         /\ nReleased = nAcquired

\* C4 witness: a scan has returned in which one probe's capability query threw
\* and another probe's query succeeded, both streams released.
C4_Witness ==
    /\ mpc = "returned"
    /\ \E i, j \in 1..Len(reports) : reports[i] = CapsFailed /\ reports[j].type = "number"
    /\ nAcquired >= 2
    /\ nReleased = nAcquired
    /\ liveProbes = {}

\* a loop iteration ends in this step, and it ended in a failure
ProbeFailsInStep ==
    /\ Len(reports') = Len(reports) + 1
    /\ reports'[Len(reports')] \in {AcquireFailed, CapsFailed}

\* a loop iteration ends in this step with a numeric report above the running maximum
ProbeImprovesInStep ==
    /\ Len(reports') = Len(reports) + 1
    /\ reports'[Len(reports')].type = "number"
    /\ reports'[Len(reports')].val > bestMinFocus

\* C9: a failing probe does not abort the scan: every video input is probed
\* exactly once, in enumeration order, with no early exit; a failed probe
\* leaves the current best unchanged and the scan goes on with the next
\* device, which can still become the best.
C9_FailureDoesNotAbort ==
    [][ /\ mpc' \in {"getUserMedia", "getPhotoCapabilities"} =>
            /\ Len(probed') = idx'
            /\ \A i \in 1..Len(probed') : probed'[i] = i
        /\ mpc' = "returned" =>
            /\ Len(probed') = Len(videoInputs')
            /\ \A i \in 1..Len(probed') : probed'[i] = i
            /\ Len(reports') = Len(videoInputs')
        /\ ProbeFailsInStep =>
            /\ UNCHANGED <<bestDeviceId, bestMinFocus>>
            /\ idx < Len(videoInputs) => (mpc' = "getUserMedia" /\ idx' = idx + 1)
        /\ ProbeImprovesInStep =>
            /\ bestDeviceId' = videoInputs[idx].deviceId
            /\ bestMinFocus' = reports'[Len(reports')].val
      ]_vars

\* C9 witness: the first probe's acquisition was rejected, the second probe's
\* capability query threw, and the third device still became the best.
C9_Witness ==
    /\ mpc = "returned"
    /\ Len(reports) = 3
    /\ reports[1] = AcquireFailed
    /\ reports[2] = CapsFailed
    /\ reports[3].type = "number"
    /\ bestDeviceId = videoInputs[3].deviceId
    /\ probed = <<1, 2, 3>>

\* a capturePhoto invocation ends in this step
FinishesInStep(c) == captures[c].pc # "done" /\ captures'[c].pc = "done"

\* C5: whenever takePhoto raised, capturePhoto ends with a non-empty captured
\* image set as the displayed photo.
C5_FallbackYieldsImage ==
    [][ \A c \in 1..MaxCaptures :
            (FinishesInStep(c) /\ captures'[c].tp = "failed") =>
                /\ captures'[c].grab = "ok"
                /\ captures'[c].result = "image"
                /\ photoUrl' \notin {Null, "data:,", "blob:empty"}
      ]_vars

\* C6: whatever fails before the frame grab, the frame grab still runs:
\* capturePhoto ends without a captured image only if the frame grab failed.
C6_OnlyGrabFailureLosesImage ==
    \A c \in 1..MaxCaptures :
        (captures[c].pc = "done" /\ captures[c].result \notin {"image", "empty"}) =>
            captures[c].grab = "failed"

\* C7: when start ends in its failure branch, no track acquired during that
\* start is live: released tracks equal acquired tracks.
C7_FailedStartHoldsNothing ==
    startPc = "failed" =>
        /\ mainTrack # "live"
        /\ liveProbes = {}
        /\ nReleased = nAcquired

\* no platform call of the component is pending
Quiescent ==
    /\ startPc \in {"done", "failed", "rejected"}
    /\ mpc \in {"idle", "rejected"}
    /\ timer \in {"none", "finished"}
    /\ \A c \in 1..MaxCaptures : captures[c].pc \in {"idle", "done"}

\* C8: if the view is torn down while start's stream acquisition is in flight,
\* the stream that is eventually acquired is stopped, whichever of the two comes
\* first.  Stated on the final state: after the view was torn down and every pending platform call has
\* settled, no media track of the component is live, however the teardown
\* interleaved with start's stream acquisition.
C8_TeardownLeavesNoLiveTrack ==
    (~mounted /\ Quiescent) =>
        /\ mainTrack # "live"
        /\ liveProbes = {}

\* platform calls against the session's track that are in flight
InFlightTrackCalls ==
    Cardinality({ c \in 1..MaxCaptures : captures[c].pc \in TrackCalls })
        + (IF timer = "applyConstraints" THEN 1 ELSE 0)

\* C10: at most one of applyConstraints / setOptions / takePhoto / grabFrame
\* is in flight on the session's track at any moment.
C10_TrackCallsSerialized == InFlightTrackCalls <= 1
====
